---- MODULE Spec2Model ----
(***************************************************************************)
(* Phase generation and market lookup of tradinghours (market.py).         *)
(*                                                                         *)
(* Three specifications share the variables below:                         *)
(*   Spec        the generator Market.generate_phases, run step by step    *)
(*               and pulled by a consumer, over a Store holding schedule   *)
(*               and holiday rows of one market;                           *)
(*   SpecSeason  Market._filter_season applied to bounded inputs;          *)
(*   SpecLookup  Market.get / get_by_finid / get_by_mic over a bounded     *)
(*               markets table.                                            *)
(***************************************************************************)
EXTENDS Integers, Sequences, FiniteSets, TLC

VARIABLES
    schedules_table,    \* Store: schedule rows of the market, in table order
    holidays_table,     \* Store: holiday rows of the market, in read order
    pc,                 \* position of the generator
    start,              \* generate_phases argument (after validation)
    end,                \* generate_phases argument (after validation)
    all_schedules,      \* local of generate_phases (line 99)
    holidays,           \* local of generate_phases (line 100), date -> row
    current_date,       \* local of generate_phases (line 103)
    schedule_group,     \* local of generate_phases (line 111)
    fallback,           \* local of generate_phases (line 111)
    before_weekdays,    \* local of generate_phases (line 119)
    found_schedules,    \* local of generate_phases (line 120)
    fallback_weekday,   \* local of generate_phases (line 124)
    fallback_schedules, \* local of generate_phases (line 125)
    idx,                \* position of the for loop of line 145
    emitted,            \* what the consumer has received so far
    fetches,            \* how often each Store table was queried in this run
    fb_iters,           \* iterations of the fallback loop on the current date
    prev,               \* the last earlier run that ran to exhaustion
    season_call,        \* SpecSeason: the call of _filter_season and its result
    markets_table,      \* SpecLookup: Store rows of table markets
    lookup_call         \* SpecLookup: the last lookup and its result

vars == <<schedules_table, holidays_table, pc, start, end, all_schedules,
          holidays, current_date, schedule_group, fallback, before_weekdays,
          found_schedules, fallback_weekday, fallback_schedules, idx, emitted,
          fetches, fb_iters, prev, season_call, markets_table, lookup_call>>

gen_vars == <<schedules_table, holidays_table, pc, start, end, all_schedules,
              holidays, current_date, schedule_group, fallback,
              before_weekdays, found_schedules, fallback_weekday,
              fallback_schedules, idx, emitted, fetches, fb_iters, prev>>

-----------------------------------------------------------------------------
(* Bounds of the model *)

\* most schedule rows the market has in the Store
MaxSchedules == 2
\* most holiday rows the market has in the Store
MaxHolidays == 2
\* longest requested window: end - start
MaxSpan == 1
\* longest input of the season filter in SpecSeason
MaxSeasonIn == 2

\* market.py line 18
MAX_OFFSET_DAYS == 2

-----------------------------------------------------------------------------
(* Calendar: datetime.date over 2021..2023 (no leap year among them).      *)
(* A date is its number of days since 2021-01-01.                          *)

EpochYear == 2021
DaysInYear == 365
\* weekday of 2021-01-01, Monday = 0: a Friday
EpochWeekday == 4

DaysBeforeMonth == <<0, 31, 59, 90, 120, 151, 181, 212, 243, 273, 304, 334>>

FromYMD(y, m, d) == (y - EpochYear) * DaysInYear + DaysBeforeMonth[m] + d - 1

Year(n) == EpochYear + (n \div DaysInYear)

Month(n) ==
    LET doy == n % DaysInYear
    IN  CHOOSE m \in 1..12 :
            /\ DaysBeforeMonth[m] <= doy
            /\ (m = 12 \/ doy < DaysBeforeMonth[m + 1])

Day(n) == (n % DaysInYear) - DaysBeforeMonth[Month(n)] + 1

\* date.isoformat(): "YYYY-MM-DD", kept as its three fixed-width fields
IsoFormat(n) == <<Year(n), Month(n), Day(n)>>

\* date.fromisoformat()
FromIso(s) == FromYMD(s[1], s[2], s[3])

\* date.weekday(): Monday = 0 .. Sunday = 6
Weekday(n) == (n + EpochWeekday) % 7

\* order of fixed-width strings, field by field
RECURSIVE LexLess(_, _)
LexLess(a, b) ==
    IF a = <<>> \/ b = <<>> THEN a = <<>> /\ b # <<>>
    ELSE IF Head(a) # Head(b) THEN Head(a) < Head(b)
    ELSE LexLess(Tail(a), Tail(b))

LexLeq(a, b) == a = b \/ LexLess(a, b)

\* a time of day "HH:MM:SS" is kept as <<HH, MM, SS>>; time.fromisoformat()
\* gives the seconds since midnight
ParseTime(t) == t[1] * 3600 + t[2] * 60 + t[3]

SecondsPerDay == 86400

-----------------------------------------------------------------------------
(* Strings of the dataset *)

NoDate == -1
NoSeason == ""

\* str.lower() on the names the dataset uses
Lower(s) ==
    CASE s = "Regular" -> "regular"
      [] s = "Thanksgiving" -> "thanksgiving"
      [] s = "Closed" -> "closed"
      [] OTHER -> s

\* the strings the Store orders by, in ascending (binary) order
AsciiOrder == <<"", "Closed", "First day of December", "First day of March",
                "First day of November", "Last day of February",
                "Last day of October", "Regular", "Thanksgiving",
                "closed", "regular", "thanksgiving">>

StrRank(s) == CHOOSE i \in 1..Len(AsciiOrder) : AsciiOrder[i] = s

-----------------------------------------------------------------------------
(* Rows of the dataset *)

\* PhaseType.as_dict(): name -> status, settlement
PhaseTypes ==
    [n \in {"Primary Trading Session", "Pre-Trading Session"} |->
        IF n = "Primary Trading Session"
        THEN [status |-> "Open", settlement |-> "Yes"]
        ELSE [status |-> "Closed", settlement |-> "No"]]

\* a row of table schedules; days is the parsed weekday pattern
ScheduleRow(name, group, ptype, days, st, en, off, dur, ifs, ife, ss, se) ==
    [phase_name |-> name, schedule_group |-> group, phase_type |-> ptype,
     days |-> days, start |-> st, end |-> en, offset_days |-> off,
     duration |-> dur, in_force_start_date |-> ifs, in_force_end_date |-> ife,
     season_start |-> ss, season_end |-> se, timezone |-> "America/New_York"]

MonFri == 0..4

\* the day of the requested window start: Thursday 2021-11-25
D0 == FromYMD(2021, 11, 25)

\* the schedule rows the Store may hold for the market, in table order
SchedulePool ==
    << ScheduleRow("Core", "Regular", "Primary Trading Session", MonFri,
                   <<4, 0, 0>>, <<16, 0, 0>>, 0, 43200,
                   NoDate, NoDate, NoSeason, NoSeason),
       ScheduleRow("Pre", "regular", "Pre-Trading Session", MonFri,
                   <<4, 0, 0>>, <<9, 30, 0>>, 0, 19800,
                   NoDate, NoDate, NoSeason, NoSeason),
       ScheduleRow("Overnight", "Regular", "Primary Trading Session", MonFri,
                   <<20, 0, 0>>, <<4, 0, 0>>, 1, 28800,
                   FromYMD(2021, 1, 1), NoDate, NoSeason, NoSeason),
       ScheduleRow("Winter", "Regular", "Primary Trading Session", MonFri,
                   <<22, 0, 0>>, <<2, 0, 0>>, 2, 100800,
                   NoDate, NoDate,
                   "First day of November", "Last day of February"),
       ScheduleRow("Evening", "Regular", "Pre-Trading Session", MonFri,
                   <<20, 0, 0>>, <<4, 0, 0>>, 0, 28800,
                   NoDate, NoDate, NoSeason, NoSeason),
       ScheduleRow("Friday", "Thanksgiving", "Primary Trading Session", {4},
                   <<9, 30, 0>>, <<13, 0, 0>>, 0, 12600,
                   NoDate, NoDate, NoSeason, NoSeason),
       ScheduleRow("Midweek", "Thanksgiving", "Primary Trading Session", {2},
                   <<9, 30, 0>>, <<13, 0, 0>>, 0, 12600,
                   NoDate, NoDate, NoSeason, NoSeason),
       ScheduleRow("Early", "Thanksgiving", "Pre-Trading Session", 0..2,
                   <<4, 0, 0>>, <<9, 30, 0>>, 0, 19800,
                   FromYMD(2021, 1, 1), NoDate, NoSeason, NoSeason),
       ScheduleRow("Retired", "Thanksgiving", "Primary Trading Session", MonFri,
                   <<9, 30, 0>>, <<13, 0, 0>>, 0, 12600,
                   NoDate, FromYMD(2021, 6, 30), NoSeason, NoSeason) >>

\* a row of table market_holidays
HolidayRow(date, name, schedule) ==
    [date |-> IsoFormat(date), holiday_name |-> name, schedule |-> schedule]

\* the holiday rows the Store may hold for the market
HolidayPool ==
    { HolidayRow(D0, "Thanksgiving Day", "Thanksgiving"),
      HolidayRow(D0, "Thanksgiving Day", "Closed"),
      HolidayRow(D0 + 1, "Day after Thanksgiving", "Thanksgiving") }

\* sequences over S of length at most n
SeqsUpTo(S, n) == UNION { [1..k -> S] : k \in 0..n }

\* the rows of seq at the positions in idxs, in the order of seq
RECURSIVE SubSeqAt(_, _, _)
SubSeqAt(seq, idxs, i) ==
    IF i > Len(seq) THEN <<>>
    ELSE (IF i \in idxs THEN <<seq[i]>> ELSE <<>>) \o SubSeqAt(seq, idxs, i + 1)

-----------------------------------------------------------------------------
(* Store queries *)

\* a stable sort of seq, keys[i] being the key of seq[i]: a tuple of numbers,
\* compared field by field
StableSort(seq, keys) ==
    LET n == Len(seq)
        pos(i) == Cardinality({ j \in 1..n :
                      \/ LexLess(keys[j], keys[i])
                      \/ (j < i /\ keys[j] = keys[i]) }) + 1
    IN  [k \in 1..n |-> seq[CHOOSE i \in 1..n : pos(i) = k]]

\* a nullable ISO date as the Store orders it, NULL first
IsoOrNull(d) == IF d = NoDate THEN <<0, 0, 0>> ELSE IsoFormat(d)

\* the ORDER BY key of list_schedules
OrderByKey(s) ==
    <<StrRank(s.schedule_group)>> \o IsoOrNull(s.in_force_start_date)
        \o <<StrRank(s.season_start)>> \o s.start \o s.end

\* Market.list_schedules
ListSchedules(table) ==
    StableSort(table, [i \in 1..Len(table) |-> OrderByKey(table[i])])

\* (the end of the range is left out)
HolidayBeforeEnd(r, lo, hi) ==
    LexLeq(IsoFormat(lo), r.date) /\ LexLess(r.date, IsoFormat(hi))

\* the WHERE clause of list_holidays: date >= start and date <= end, on strings
HolidayInRange(r, lo, hi) ==
    LexLeq(IsoFormat(lo), r.date) /\ LexLeq(r.date, IsoFormat(hi))

\* (the first row read for a key is kept)
DictSetDefault(dict, k, v) ==
    [d \in DOMAIN dict \cup {k} |-> IF d \in DOMAIN dict THEN dict[d] ELSE v]

\* storing a key in a dict: a later value replaces an earlier one
DictPut(dict, k, v) ==
    [d \in DOMAIN dict \cup {k} |-> IF d = k THEN v ELSE dict[d]]

\* the dict comprehension of list_holidays, rows taken in read order
RECURSIVE AsDict(_)
AsDict(rows) ==
    IF rows = <<>> THEN <<>>
    ELSE LET n == Len(rows)
         IN  DictPut(AsDict(SubSeq(rows, 1, n - 1)),
                     FromIso(rows[n].date), rows[n])

\* Market.list_holidays(start, end, as_dict=True)
ListHolidays(table, lo, hi) ==
    LET InRange(r) == HolidayInRange(r, lo, hi)
    IN  AsDict(SelectSeq(table, InRange))

-----------------------------------------------------------------------------
(* The filter cascade *)

\* Schedule.is_group_open: a group is open when one of its schedules has a
\* phase type of status Open
IsGroupOpen(group) ==
    \E i \in 1..Len(schedules_table) :
        /\ Lower(schedules_table[i].schedule_group) = Lower(group)
        /\ PhaseTypes[schedules_table[i].phase_type].status = "Open"

\* Market._pick_schedule_group: <<schedule_group, fallback>>
PickScheduleGroup(some_date, holiday_index) ==
    IF some_date \in DOMAIN holiday_index
    THEN LET group == Lower(holiday_index[some_date].schedule)
         IN  <<group, IsGroupOpen(group)>>
    ELSE <<"regular", FALSE>>

\* Market._filter_schedule_group
FilterScheduleGroup(group, schedules) ==
    LET Keep(current) == Lower(current.schedule_group) = Lower(group)
    IN  SelectSeq(schedules, Keep)

\* Schedule.is_in_force(start, end): a missing bound is open-ended
IsInForce(current, first, last) ==
    /\ \/ current.in_force_start_date = NoDate
       \/ LexLeq(IsoFormat(current.in_force_start_date), first)
    /\ \/ current.in_force_end_date = NoDate
       \/ LexLeq(last, IsoFormat(current.in_force_end_date))

\* Market._filter_inforce
FilterInforce(some_date_str, schedules) ==
    LET Keep(current) == IsInForce(current, some_date_str, some_date_str)
    IN  SelectSeq(schedules, Keep)

\* Schedule.has_season
HasSeason(current) == current.season_start # NoSeason

\* the month and day each season name stands for
SeasonDay(season) ==
    CASE season = "First day of November" -> <<11, 1>>
      [] season = "First day of December" -> <<12, 1>>
      [] season = "Last day of February" -> <<2, 28>>
      [] season = "First day of March" -> <<3, 1>>
      [] season = "Last day of October" -> <<10, 31>>

\* SeasonDefinition.get(season, year).date, an ISO date
SeasonDefinitionGet(season, year) ==
    <<year, SeasonDay(season)[1], SeasonDay(season)[2]>>

\* (the test of line 75 without its lower bound)
SeasonYieldsTwice(some_date_str, start_date, end_date) ==
    (IF LexLess(end_date, start_date)
        /\ (LexLeq(some_date_str, end_date) \/ LexLeq(start_date, some_date_str))
     THEN 1 ELSE 0)
    + (IF LexLeq(some_date_str, end_date) THEN 1 ELSE 0)

\* Market._filter_season, lines 71..76: how often a seasonal schedule is
\* yielded
SeasonYields(some_date_str, start_date, end_date) ==
    (IF LexLess(end_date, start_date)
        /\ (LexLeq(some_date_str, end_date) \/ LexLeq(start_date, some_date_str))
     THEN 1 ELSE 0)
    + (IF LexLeq(start_date, some_date_str) /\ LexLeq(some_date_str, end_date)
       THEN 1 ELSE 0)

Repeat(x, n) == [i \in 1..n |-> x]

\* Market._filter_season
RECURSIVE FilterSeason(_, _)
FilterSeason(some_date, schedules) ==
    IF schedules = <<>> THEN <<>>
    ELSE LET current == Head(schedules)
             start_date == SeasonDefinitionGet(current.season_start, Year(some_date))
             end_date == SeasonDefinitionGet(current.season_end, Year(some_date))
         IN  (IF ~HasSeason(current) THEN <<current>>
              ELSE Repeat(current,
                          SeasonYields(IsoFormat(some_date), start_date, end_date)))
             \o FilterSeason(some_date, Tail(schedules))

\* util.weekdays_match: the weekday is one of the days of the pattern
WeekdaysMatch(days, weekday) == weekday \in days

\* Market._filter_weekdays
FilterWeekdays(weekday, schedules) ==
    LET Keep(current) == WeekdaysMatch(current.days, weekday)
    IN  SelectSeq(schedules, Keep)

\* (the weekday after, not the weekday before)
NextWeekday(weekday) == IF weekday = 6 THEN 0 ELSE weekday + 1

\* (no wrap from Monday to Sunday)
PrevWeekdayNoWrap(weekday) == weekday - 1

\* lines 124 and 133..135: the weekday before
PrevWeekday(weekday) == IF weekday = 0 THEN 6 ELSE weekday - 1

\* (no sort)
Unsorted(schedules) == schedules

\* line 141: the key (s.start, s.duration)
SortKey(s) == s.start \o <<s.duration>>

\* lines 139..142: sorted(found_schedules, key=...)
SortSchedules(schedules) ==
    StableSort(schedules, [i \in 1..Len(schedules) |-> SortKey(schedules[i])])

-----------------------------------------------------------------------------
(* Materializing a phase *)

\* daylight saving time of America/New_York, for a wall time with fold = 0
DstStart(year) ==
    CASE year = 2021 -> FromYMD(2021, 3, 14)
      [] year = 2022 -> FromYMD(2022, 3, 13)
      [] year = 2023 -> FromYMD(2023, 3, 12)

DstEnd(year) ==
    CASE year = 2021 -> FromYMD(2021, 11, 7)
      [] year = 2022 -> FromYMD(2022, 11, 6)
      [] year = 2023 -> FromYMD(2023, 11, 5)

\* ZoneInfo(timezone).utcoffset of a wall time, in seconds
UtcOffset(timezone, date, time) ==
    LET secs == ParseTime(time)
        s == DstStart(Year(date))
        e == DstEnd(Year(date))
        dst == /\ (date > s \/ (date = s /\ secs >= 3 * 3600))
               /\ (date < e \/ (date = e /\ secs < 2 * 3600))
    IN  IF dst THEN -14400 ELSE -18000

\* datetime.combine(date, time).replace(tzinfo=zone).isoformat()
ZonedIso(date, time, timezone) ==
    [date |-> IsoFormat(date), time |-> time,
     utcoffset |-> UtcOffset(timezone, date, time)]

\* the instant a zoned timestamp denotes, in seconds
Instant(z) == FromIso(z.date) * SecondsPerDay + ParseTime(z.time) - z.utcoffset

\* line 147
EndDate(some_date, current_schedule) == some_date + current_schedule.offset_days

\* (a phase ending on the first day of the window is dropped)
EndsAfterStart(end_date, window_start) == end_date > window_start

\* line 151: the phase does not end before the window
EndsInWindow(end_date, window_start) == end_date >= window_start

\* lines 152..175: the Phase yielded for a schedule on a date
MakePhase(some_date, current_schedule) ==
    [phase_type |-> current_schedule.phase_type,
     phase_name |-> current_schedule.phase_name,
     status |-> PhaseTypes[current_schedule.phase_type].status,
     settlement |-> PhaseTypes[current_schedule.phase_type].settlement,
     start |-> ZonedIso(some_date, current_schedule.start,
                        current_schedule.timezone),
     end |-> ZonedIso(EndDate(some_date, current_schedule),
                      current_schedule.end, current_schedule.timezone)]

-----------------------------------------------------------------------------
(* Market.generate_phases, a generator pulled by its consumer *)

NoRun == [start |-> NoDate, end |-> NoDate, out |-> <<>>]
NoFetches == [schedules |-> 0, holidays |-> 0, phase_types |-> 0]

\* the frame of a generator that has not run yet
FreshFrame ==
    /\ all_schedules = <<>>
    /\ holidays = <<>>
    /\ current_date = NoDate
    /\ schedule_group = ""
    /\ fallback = FALSE
    /\ before_weekdays = <<>>
    /\ found_schedules = <<>>
    /\ fallback_weekday = NoDate
    /\ fallback_schedules = <<>>
    /\ idx = 0
    /\ emitted = <<>>
    /\ fetches = NoFetches
    /\ fb_iters = 0

\* the phases of the records in out
Phases(out) == [i \in 1..Len(out) |-> out[i].phase]

\* generate_phases(start, end) is called: a generator is made, and none of
\* its body runs; a generator the consumer held before is dropped, and what
\* it yielded is remembered in prev if it was exhausted
Call ==
    /\ pc \in {"idle", "created", "yielded", "done"}
    /\ \E e \in D0..(D0 + MaxSpan) :
        /\ start' = D0
        /\ end' = e
    /\ pc' = "created"
    /\ all_schedules' = <<>>
    /\ holidays' = <<>>
    /\ current_date' = NoDate
    /\ schedule_group' = ""
    /\ fallback' = FALSE
    /\ before_weekdays' = <<>>
    /\ found_schedules' = <<>>
    /\ fallback_weekday' = NoDate
    /\ fallback_schedules' = <<>>
    /\ idx' = 0
    /\ emitted' = <<>>
    /\ fetches' = NoFetches
    /\ fb_iters' = 0
    /\ prev' = IF pc = "done"
               THEN [start |-> start, end |-> end, out |-> Phases(emitted)]
               ELSE prev
    /\ UNCHANGED <<schedules_table, holidays_table,
                   season_call, markets_table, lookup_call>>

\* first next(): lines 88..103; the arguments are dates with start <= end,
\* which validate_range_args accepts
Begin ==
    /\ pc = "created"
    /\ LET offset_start == start - MAX_OFFSET_DAYS
       IN  /\ all_schedules' = ListSchedules(schedules_table)
           /\ holidays' = ListHolidays(holidays_table, offset_start, end)
           /\ current_date' = offset_start
    /\ fetches' = [schedules |-> fetches.schedules + 1,
                   holidays |-> fetches.holidays + 1,
                   phase_types |-> fetches.phase_types + 1]
    /\ pc' = "loop"
    /\ UNCHANGED <<schedules_table, holidays_table, start, end, schedule_group,
                   fallback, before_weekdays, found_schedules, fallback_weekday,
                   fallback_schedules, idx, emitted, fb_iters, prev,
                   season_call, markets_table, lookup_call>>

\* lines 104..125: the filters of one date
BeginDate ==
    /\ pc = "loop"
    /\ current_date <= end
    /\ LET current_date_str == IsoFormat(current_date)
           current_weekday == Weekday(current_date)
           picked == PickScheduleGroup(current_date, holidays)
           by_group == FilterScheduleGroup(picked[1], all_schedules)
           in_force == FilterInforce(current_date_str, by_group)
           in_season == FilterSeason(current_date, in_force)
           found == FilterWeekdays(current_weekday, in_season)
       IN  /\ schedule_group' = picked[1]
           /\ fallback' = picked[2]
           /\ before_weekdays' = in_season
           /\ found_schedules' = found
           /\ IF found = <<>> /\ picked[2]
              THEN /\ fallback_weekday' = PrevWeekday(current_weekday)
                   /\ fallback_schedules' = <<>>
                   /\ pc' = "fallback"
              ELSE /\ UNCHANGED <<fallback_weekday, fallback_schedules>>
                   /\ pc' = "sort"
    /\ fb_iters' = 0
    /\ UNCHANGED <<schedules_table, holidays_table, start, end, all_schedules,
                   holidays, current_date, idx, emitted, fetches, prev,
                   season_call, markets_table, lookup_call>>

\* lines 126..135: one iteration of the fallback loop
FallbackIter ==
    /\ pc = "fallback"
    /\ fallback_schedules = <<>>
    /\ fallback_weekday # Weekday(current_date)
    /\ fallback_schedules' = FilterWeekdays(fallback_weekday, before_weekdays)
    /\ fallback_weekday' = PrevWeekday(fallback_weekday)
    /\ fb_iters' = fb_iters + 1
    /\ UNCHANGED <<schedules_table, holidays_table, pc, start, end,
                   all_schedules, holidays, current_date, schedule_group,
                   fallback, before_weekdays, found_schedules, idx, emitted,
                   fetches, prev, season_call, markets_table, lookup_call>>

\* line 126 fails, line 136
FallbackExit ==
    /\ pc = "fallback"
    /\ ~(fallback_schedules = <<>> /\ fallback_weekday # Weekday(current_date))
    /\ found_schedules' = fallback_schedules
    /\ pc' = "sort"
    /\ UNCHANGED <<schedules_table, holidays_table, start, end, all_schedules,
                   holidays, current_date, schedule_group, fallback,
                   before_weekdays, fallback_weekday, fallback_schedules, idx,
                   emitted, fetches, fb_iters, prev,
                   season_call, markets_table, lookup_call>>

\* lines 139..145
Sort ==
    /\ pc = "sort"
    /\ found_schedules' = SortSchedules(found_schedules)
    /\ idx' = 1
    /\ pc' = "emit"
    /\ UNCHANGED <<schedules_table, holidays_table, start, end, all_schedules,
                   holidays, current_date, schedule_group, fallback,
                   before_weekdays, fallback_weekday, fallback_schedules,
                   emitted, fetches, fb_iters, prev,
                   season_call, markets_table, lookup_call>>

\* lines 145..175: the phase of the schedule is yielded
Yield ==
    /\ pc = "emit"
    /\ idx <= Len(found_schedules)
    /\ LET current_schedule == found_schedules[idx]
       IN  /\ EndsInWindow(EndDate(current_date, current_schedule), start)
           /\ emitted' = Append(emitted,
                  [date |-> current_date, schedule |-> current_schedule,
                   phase |-> MakePhase(current_date, current_schedule)])
    /\ idx' = idx + 1
    /\ pc' = "yielded"
    /\ UNCHANGED <<schedules_table, holidays_table, start, end, all_schedules,
                   holidays, current_date, schedule_group, fallback,
                   before_weekdays, found_schedules, fallback_weekday,
                   fallback_schedules, fetches, fb_iters, prev,
                   season_call, markets_table, lookup_call>>

\* lines 145..151: the phase ends before the window and is left out
Skip ==
    /\ pc = "emit"
    /\ idx <= Len(found_schedules)
    /\ ~EndsInWindow(EndDate(current_date, found_schedules[idx]), start)
    /\ idx' = idx + 1
    /\ UNCHANGED <<schedules_table, holidays_table, pc, start, end,
                   all_schedules, holidays, current_date, schedule_group,
                   fallback, before_weekdays, found_schedules,
                   fallback_weekday, fallback_schedules, emitted, fetches,
                   fb_iters, prev, season_call, markets_table, lookup_call>>

\* next() on a generator suspended at the yield of line 165
Resume ==
    /\ pc = "yielded"
    /\ pc' = "emit"
    /\ UNCHANGED <<schedules_table, holidays_table, start, end, all_schedules,
                   holidays, current_date, schedule_group, fallback,
                   before_weekdays, found_schedules, fallback_weekday,
                   fallback_schedules, idx, emitted, fetches, fb_iters, prev,
                   season_call, markets_table, lookup_call>>

\* (the holidays are queried again for each date)
NextDateRefetch ==
    /\ pc = "emit"
    /\ idx > Len(found_schedules)
    /\ current_date' = current_date + 1
    /\ holidays' = ListHolidays(holidays_table, start - MAX_OFFSET_DAYS, end)
    /\ fetches' = [fetches EXCEPT !.holidays = @ + 1]
    /\ pc' = "loop"
    /\ UNCHANGED <<schedules_table, holidays_table, start, end, all_schedules,
                   schedule_group, fallback, before_weekdays, found_schedules,
                   fallback_weekday, fallback_schedules, idx, emitted,
                   fb_iters, prev, season_call, markets_table, lookup_call>>

\* line 178, after the for loop of line 145 has ended
NextDate ==
    /\ pc = "emit"
    /\ idx > Len(found_schedules)
    /\ current_date' = current_date + 1
    /\ pc' = "loop"
    /\ UNCHANGED <<schedules_table, holidays_table, start, end, all_schedules,
                   holidays, schedule_group, fallback, before_weekdays,
                   found_schedules, fallback_weekday, fallback_schedules, idx,
                   emitted, fetches, fb_iters, prev,
                   season_call, markets_table, lookup_call>>

\* line 104 fails: the generator is exhausted
Finish ==
    /\ pc = "loop"
    /\ current_date > end
    /\ pc' = "done"
    /\ UNCHANGED <<schedules_table, holidays_table, start, end, all_schedules,
                   holidays, current_date, schedule_group, fallback,
                   before_weekdays, found_schedules, fallback_weekday,
                   fallback_schedules, idx, emitted, fetches, fb_iters, prev,
                   season_call, markets_table, lookup_call>>

\* no generator exists
NoGenerator ==
    /\ pc = "idle"
    /\ start = NoDate
    /\ end = NoDate
    /\ FreshFrame
    /\ prev = NoRun

NoSeasonCall == [pc |-> "none"]
NoLookup == [op |-> "none"]

\* the Store holds at most MaxSchedules schedule rows and MaxHolidays holiday
\* rows of the market; no generator exists
Init ==
    /\ schedules_table \in
          { SubSeqAt(SchedulePool, idxs, 1) :
              idxs \in { s \in SUBSET (1..Len(SchedulePool)) :
                           Cardinality(s) <= MaxSchedules } }
    /\ holidays_table \in SeqsUpTo(HolidayPool, MaxHolidays)
    /\ NoGenerator
    /\ season_call = NoSeasonCall
    /\ markets_table = {}
    /\ lookup_call = NoLookup

Next ==
    \/ Call
    \/ Begin
    \/ BeginDate
    \/ FallbackIter
    \/ FallbackExit
    \/ Sort
    \/ Yield
    \/ Skip
    \/ Resume
    \/ NextDate
    \/ Finish

Spec == Init /\ [][Next]_vars

-----------------------------------------------------------------------------
(* Properties of generate_phases *)

IsPrefix(a, b) == Len(a) <= Len(b) /\ SubSeq(b, 1, Len(a)) = a

\* C1: every emitted phase has start strictly before end as zoned instants,
\* whatever start, end and offset_days its schedule row carries.
C1_StartBeforeEnd ==
    \A i \in 1..Len(emitted) :
        Instant(emitted[i].phase.start) < Instant(emitted[i].phase.end)

\* C2: lookback pruning. Every emitted phase ends on a local date >= start,
\* and of the schedules of the current date the for loop has passed, exactly
\* those with current_date + offset_days >= start have been emitted.
C2_LookbackPruning ==
    /\ \A i \in 1..Len(emitted) :
          /\ FromIso(emitted[i].phase.end.date) >= start
          /\ emitted[i].date >= start - 2
          /\ emitted[i].date <= end
    /\ pc \in {"emit", "yielded"} =>
          \A j \in 1..(idx - 1) :
              (\E i \in 1..Len(emitted) :
                  /\ emitted[i].date = current_date
                  /\ emitted[i].schedule = found_schedules[j])
              <=> (current_date + found_schedules[j].offset_days >= start)

\* a phase that starts on a lookback day was emitted after one that ends
\* before the window was left out
C2_Witness ==
    /\ pc = "yielded"
    /\ emitted[Len(emitted)].date < start
    /\ \E j \in 1..(idx - 1) :
          current_date + found_schedules[j].offset_days < start

\* (date, start time, duration) of an emitted phase does not decrease
KeyLeq(a, b) ==
    \/ a.date < b.date
    \/ /\ a.date = b.date
       /\ \/ ParseTime(a.schedule.start) < ParseTime(b.schedule.start)
          \/ /\ ParseTime(a.schedule.start) = ParseTime(b.schedule.start)
             /\ a.schedule.duration <= b.schedule.duration

\* C3: the emitted phases are ordered by (date, start, duration).
C3_Ordered ==
    \A i, j \in 1..Len(emitted) : i < j => KeyLeq(emitted[i], emitted[j])

PosIn(seq, x) == CHOOSE i \in 1..Len(seq) : seq[i] = x

\* two phases of one date were emitted in the reverse of the order the Store
\* gave their schedules in, on a date whose schedules came from the fallback
C3_Witness ==
    /\ pc = "yielded"
    /\ fb_iters > 0
    /\ \E i, j \in 1..Len(emitted) :
          /\ i < j
          /\ emitted[i].date = current_date
          /\ emitted[j].date = current_date
          /\ PosIn(all_schedules, emitted[i].schedule)
                > PosIn(all_schedules, emitted[j].schedule)

\* C4: what generate_phases(d, d) emits is a prefix of what
\* generate_phases(d, d + 1) emits over the same dataset, in whichever order
\* the two runs are made.
C4_Prefix ==
    pc = "done" =>
        /\ (prev.start = start /\ prev.end + 1 = end)
              => IsPrefix(prev.out, Phases(emitted))
        /\ (prev.start = start /\ prev.end = end + 1)
              => IsPrefix(Phases(emitted), prev.out)

\* the longer run emitted the phases of the shorter one and then more, with
\* a holiday on the last day of the shorter window
C4_Witness ==
    /\ pc = "done"
    /\ prev.start = start
    /\ prev.end + 1 = end
    /\ prev.out # <<>>
    /\ Len(emitted) > Len(prev.out)
    /\ prev.end \in DOMAIN holidays

\* the members of schedules that match the weekday k days before weekday
MatchBack(schedules, weekday, k) ==
    LET Keep(s) == ((weekday + 7 - k) % 7) \in s.days
    IN  SelectSeq(schedules, Keep)

\* C6: after the weekday filter and the fallback, the schedules of the date
\* are the members of before_weekdays that match its weekday; or, when none
\* does and fallback is allowed, those that match the nearest earlier
\* weekday, 1..6 days back, that any member matches; or none. The fallback
\* loop does not run when a member matches the weekday, nor when fallback is
\* not allowed, and fallback is not allowed on a date without a holiday.
C6_FallbackSelection ==
    pc = "sort" =>
        LET w == Weekday(current_date)
            B == before_weekdays
            hits == { k \in 1..6 : MatchBack(B, w, k) # <<>> }
            nearest == CHOOSE k \in hits : \A m \in hits : k <= m
        IN  /\ MatchBack(B, w, 0) # <<>> =>
                /\ found_schedules = MatchBack(B, w, 0)
                /\ fb_iters = 0
            /\ (MatchBack(B, w, 0) = <<>> /\ fallback) =>
                /\ hits # {} => /\ found_schedules = MatchBack(B, w, nearest)
                                /\ fb_iters = nearest
                /\ hits = {} => found_schedules = <<>>
            /\ (MatchBack(B, w, 0) = <<>> /\ ~fallback) =>
                /\ found_schedules = <<>>
                /\ fb_iters = 0
            /\ (\A i \in 1..Len(holidays_table) :
                    FromIso(holidays_table[i].date) # current_date)
                => ~fallback

\* the fallback found schedules two or more weekdays back, passing over a
\* weekday none matched
C6_Witness ==
    /\ pc = "sort"
    /\ fb_iters >= 2
    /\ found_schedules # <<>>
    /\ Len(before_weekdays) >= 2

\* C7: the fallback loop runs at most 7 times on a date, and when it has
\* stopped it has found schedules or its weekday is back at the date's own.
C7_FallbackTerminates ==
    /\ fb_iters <= 7
    /\ (pc = "sort" /\ fb_iters > 0) =>
          \/ found_schedules # <<>>
          \/ fallback_weekday = Weekday(current_date)

\* the loop went through all six other weekdays and found no schedule
C7_Witness ==
    /\ pc = "sort"
    /\ fb_iters = 6
    /\ found_schedules = <<>>
    /\ fallback_weekday = Weekday(current_date)

\* C9: the schedules and the holidays are each fetched once, before any date
\* is processed or phase emitted, and not again; while the consumer holds a
\* phase, no date after the date of that phase has been processed.
C9_FetchOnceThenLazy ==
    /\ pc \in {"idle", "created"} =>
          /\ fetches = NoFetches
          /\ current_date = NoDate
          /\ emitted = <<>>
    /\ pc \notin {"idle", "created"} =>
          /\ fetches.schedules = 1
          /\ fetches.holidays = 1
          /\ \A i \in 1..Len(emitted) : emitted[i].date <= current_date
    /\ pc = "yielded" => emitted[Len(emitted)].date = current_date

\* the consumer holds a phase of a date before the end of the window, after
\* dates without a phase were passed
C9_Witness ==
    /\ pc = "yielded"
    /\ current_date < end
    /\ current_date > start - MAX_OFFSET_DAYS
    /\ Len(emitted) = 1
    /\ fetches.holidays = 1

\* the positions of the holiday rows of a date, in read order
RowsOn(date) ==
    { i \in 1..Len(holidays_table) : FromIso(holidays_table[i].date) = date }

\* the target group of a date: of its last-read holiday row, or "regular"
TargetGroup(date) ==
    IF RowsOn(date) = {} THEN "regular"
    ELSE LET last == CHOOSE i \in RowsOn(date) : \A j \in RowsOn(date) : j <= i
         IN  Lower(holidays_table[last].schedule)

\* the holiday rows without those a later row of the same date follows
LastRowsOnly ==
    LET Keep(i) == \A j \in RowsOn(FromIso(holidays_table[i].date)) : j <= i
    IN  SubSeqAt(holidays_table, { i \in 1..Len(holidays_table) : Keep(i) }, 1)

\* C10: every schedule materialized on a date has the target group of the
\* date, case-insensitively; a date without holiday rows has target group
\* "regular" and no fallback; holiday rows that a later row of the same date
\* follows change nothing.
C10_GroupSelection ==
    /\ \A i \in 1..Len(emitted) :
          Lower(emitted[i].schedule.schedule_group)
             = Lower(TargetGroup(emitted[i].date))
    /\ pc \in {"fallback", "sort", "emit", "yielded"} =>
          /\ schedule_group = TargetGroup(current_date)
          /\ RowsOn(current_date) = {} => ~fallback
    /\ pc \notin {"idle", "created"} =>
          holidays = ListHolidays(LastRowsOnly, start - MAX_OFFSET_DAYS, end)

\* a phase was emitted on a date with two holiday rows naming different
\* groups
C10_Witness ==
    /\ pc = "yielded"
    /\ Cardinality(RowsOn(current_date)) = 2
    /\ \E i, j \in RowsOn(current_date) :
          holidays_table[i].schedule # holidays_table[j].schedule
    /\ emitted[Len(emitted)].schedule.schedule_group = "Thanksgiving"

-----------------------------------------------------------------------------
(* Market._filter_season on its own *)

\* the dates the filter is called with
SeasonDates ==
    { FromYMD(2021, 12, 1), FromYMD(2021, 12, 31), FromYMD(2022, 1, 15),
      FromYMD(2022, 2, 28), FromYMD(2022, 3, 1), FromYMD(2022, 4, 1),
      FromYMD(2022, 10, 31), FromYMD(2022, 11, 30) }

Seasonal(name, ss, se) ==
    ScheduleRow(name, "Regular", "Primary Trading Session", MonFri,
                <<9, 30, 0>>, <<16, 0, 0>>, 0, 23400, NoDate, NoDate, ss, se)

\* the schedules the filter is called with
SeasonPool ==
    { Seasonal("AllYear", NoSeason, NoSeason),
      Seasonal("WinterWrap", "First day of December", "Last day of February"),
      Seasonal("Summer", "First day of March", "Last day of October"),
      Seasonal("OneDay", "First day of March", "First day of March"),
      Seasonal("AutumnWrap", "First day of November", "Last day of October") }

InitSeason ==
    /\ schedules_table = <<>>
    /\ holidays_table = <<>>
    /\ NoGenerator
    /\ markets_table = {}
    /\ lookup_call = NoLookup
    /\ \E d \in SeasonDates, s \in SeqsUpTo(SeasonPool, MaxSeasonIn) :
          season_call = [pc |-> "called", some_date |-> d, schedules |-> s,
                         result |-> <<>>]

\* list(self._filter_season(some_date, schedules))
FilterSeasonReturn ==
    /\ season_call.pc = "called"
    /\ season_call' =
          [season_call EXCEPT
              !.pc = "returned",
              !.result = FilterSeason(season_call.some_date,
                                      season_call.schedules)]
    /\ UNCHANGED <<gen_vars, markets_table, lookup_call>>

NextSeason == FilterSeasonReturn

SpecSeason == InitSeason /\ [][NextSeason]_vars

\* the season bounds of a schedule as days, in the year of the date
SeasonStartDay(s, date) ==
    FromIso(SeasonDefinitionGet(s.season_start, Year(date)))
SeasonEndDay(s, date) ==
    FromIso(SeasonDefinitionGet(s.season_end, Year(date)))

\* the schedules the season filter is to keep on a date
InSeason(s, date) ==
    \/ s.season_start = NoSeason
    \/ /\ s.season_start # NoSeason
       /\ \/ /\ SeasonEndDay(s, date) >= SeasonStartDay(s, date)
             /\ SeasonStartDay(s, date) <= date
             /\ date <= SeasonEndDay(s, date)
          \/ /\ SeasonEndDay(s, date) < SeasonStartDay(s, date)
             /\ (date <= SeasonEndDay(s, date) \/ date >= SeasonStartDay(s, date))

Occurrences(seq, x) == Cardinality({ i \in 1..Len(seq) : seq[i] = x })

\* C5: the season filter returns the sub-sequence of its input made of the
\* schedules without a season and those whose season, resolved in the year
\* of the date, holds the date (wrap-around seasons included), each as often
\* as the input has it; the season Dec 1 .. Feb 28 selects Jan 15 and not
\* Apr 1.
C5_SeasonFilter ==
    season_call.pc = "returned" =>
        LET date == season_call.some_date
            Keep(s) == InSeason(s, date)
            wrap == Seasonal("WinterWrap", "First day of December",
                             "Last day of February")
        IN  /\ season_call.result = SelectSeq(season_call.schedules, Keep)
            /\ date = FromYMD(2022, 1, 15) =>
                  Occurrences(season_call.result, wrap)
                     = Occurrences(season_call.schedules, wrap)
            /\ date = FromYMD(2022, 4, 1) =>
                  Occurrences(season_call.result, wrap) = 0

\* the wrap-around season Dec 1 .. Feb 28 was kept, once, on Jan 15
C5_Witness ==
    /\ season_call.pc = "returned"
    /\ season_call.some_date = FromYMD(2022, 1, 15)
    /\ Len(season_call.schedules) = 2
    /\ Len(season_call.result) = 1
    /\ season_call.result[1].phase_name = "WinterWrap"

-----------------------------------------------------------------------------
(* Market lookup *)

NoFinId == ""
NoMarket == [fin_id |-> NoFinId, replaced_by |-> NoFinId]

FinIds == {"US.NYSE", "ZA.JSE.SAFEX", "ZA.JSE.EQUITIES.DRV"}

\* table mic_mappings
MicMappings ==
    { [mic |-> "XNYS", fin_id |-> "US.NYSE"],
      [mic |-> "XSAF", fin_id |-> "ZA.JSE.SAFEX"] }

\* the identifiers the lookups are called with; "XXXX" and "US.NONE" name
\* nothing
Mics == {"XNYS", "XSAF", "XXXX"}
Identifiers == FinIds \cup {"US.NONE"} \cup Mics

\* "." in identifier
HasDot(identifier) == identifier \notin Mics

\* query(markets).filter(fin_id == finid).one_or_none()
QueryMarket(table, finid) ==
    IF \E r \in table : r.fin_id = finid
    THEN CHOOSE r \in table : r.fin_id = finid
    ELSE NoMarket

\* query(mic_mappings).filter(mic == mic).one_or_none()
QueryMic(mic) ==
    IF \E r \in MicMappings : r.mic = mic
    THEN CHOOSE r \in MicMappings : r.mic = mic
    ELSE [mic |-> "", fin_id |-> NoFinId]

\* (replaced_by is followed until a market has none, three hops at most)
RedirectChain(table, found) ==
    LET hop(m) == IF m # NoMarket /\ m.replaced_by # NoFinId
                  THEN QueryMarket(table, m.replaced_by) ELSE m
    IN  hop(hop(hop(found)))

\* lines 226..228: the market replaced_by names
Redirect(table, found) == QueryMarket(table, found.replaced_by)

\* Market.get_by_finid
GetByFinidResult(table, finid, follow) ==
    LET found == QueryMarket(table, finid)
    IN  IF found # NoMarket /\ found.replaced_by # NoFinId /\ follow
        THEN Redirect(table, found)
        ELSE found

\* Market.get_by_mic
GetByMicResult(table, mic, follow) ==
    LET mapping == QueryMic(mic)
    IN  IF mapping.fin_id # NoFinId
        THEN GetByFinidResult(table, mapping.fin_id, follow)
        ELSE NoMarket

\* Market.get
GetResult(table, identifier, follow) ==
    IF HasDot(identifier)
    THEN GetByFinidResult(table, identifier, follow)
    ELSE GetByMicResult(table, identifier, follow)

\* the markets table holds at most one row for each FinID; replaced_by is
\* empty or names a FinID, which may have no row
InitLookup ==
    /\ schedules_table = <<>>
    /\ holidays_table = <<>>
    /\ NoGenerator
    /\ season_call = NoSeasonCall
    /\ lookup_call = NoLookup
    /\ \E present \in SUBSET FinIds :
          \E rb \in [present -> FinIds \cup {NoFinId}] :
              markets_table = { [fin_id |-> f, replaced_by |-> rb[f]] :
                                  f \in present }

GetByFinid ==
    /\ \E finid \in FinIds \cup {"US.NONE"}, follow \in BOOLEAN :
          lookup_call' = [op |-> "get_by_finid", arg |-> finid,
                          follow |-> follow,
                          result |-> GetByFinidResult(markets_table, finid, follow)]
    /\ UNCHANGED <<gen_vars, season_call, markets_table>>

GetByMic ==
    /\ \E mic \in Mics, follow \in BOOLEAN :
          lookup_call' = [op |-> "get_by_mic", arg |-> mic, follow |-> follow,
                          result |-> GetByMicResult(markets_table, mic, follow)]
    /\ UNCHANGED <<gen_vars, season_call, markets_table>>

Get ==
    /\ \E identifier \in Identifiers, follow \in BOOLEAN :
          lookup_call' = [op |-> "get", arg |-> identifier, follow |-> follow,
                          result |-> GetResult(markets_table, identifier, follow)]
    /\ UNCHANGED <<gen_vars, season_call, markets_table>>

NextLookup ==
    \/ GetByFinid
    \/ GetByMic
    \/ Get

SpecLookup == InitLookup /\ [][NextLookup]_vars

\* the rows of the markets table with a FinID
Located(finid) == { r \in markets_table : r.fin_id = finid }

\* C8: get_by_finid returns no market when none has the FinID; the located
\* market when follow is false or its replaced_by is empty; and otherwise
\* the market whose fin_id is that replaced_by (none when the table has no
\* such market), whatever the replaced_by of that market: one hop, and a
\* market replaced by itself is returned itself.
C8_OneHop ==
    lookup_call.op = "get_by_finid" =>
        LET finid == lookup_call.arg
            res == lookup_call.result
        IN  /\ Located(finid) = {} => res = NoMarket
            /\ \A m \in Located(finid) :
                  /\ (~lookup_call.follow \/ m.replaced_by = NoFinId) => res = m
                  /\ (lookup_call.follow /\ m.replaced_by # NoFinId) =>
                        /\ Located(m.replaced_by) = {} => res = NoMarket
                        /\ \A n \in Located(m.replaced_by) : res = n
                  /\ (lookup_call.follow /\ m.replaced_by = finid) => res = m

\* a lookup was redirected to a market that is itself replaced by a third,
\* and returned that market
C8_Witness ==
    /\ lookup_call.op = "get_by_finid"
    /\ lookup_call.follow
    /\ lookup_call.result # NoMarket
    /\ lookup_call.result.fin_id # lookup_call.arg
    /\ lookup_call.result.replaced_by \notin
          {NoFinId, lookup_call.arg, lookup_call.result.fin_id}
    /\ Located(lookup_call.result.replaced_by) # {}

====
